---- MODULE Spec2Model ----
(***************************************************************************)
(* Model of src/src/schannel.rs: the SChannel backend of tokio-tls.        *)
(*                                                                         *)
(* A ClientContext / ServerContext is consumed by handshake(), which       *)
(* acquires the credential, runs the first negotiation step of the         *)
(* schannel crate and wraps the outcome in the Handshake enum.  The        *)
(* Handshake future is then driven by poll().  The schannel crate is an    *)
(* external library: each of its calls (acquire, connect, accept,          *)
(* MidHandshakeTlsStream::handshake) is a nondeterministic choice over     *)
(* the values its return type allows.                                      *)
(***************************************************************************)
EXTENDS Integers, Sequences, FiniteSets

\* ---- bounds ------------------------------------------------------------
MaxPolls == 4
NumErrors == 2
NumSessions == 2
NumConts == 2
NumDomains == 1
MaxIo == 2            \* read / write / flush calls on the TlsStream (SpecStream)
MaxBuf == 1           \* longest buffer given to read / write
MaxInterrupted == 2   \* Interrupted returns of MidHandshakeTlsStream::handshake (SpecLive)

Errors == 1..NumErrors        \* io::Error values
Sessions == 1..NumSessions    \* tls_stream::TlsStream<S> values
Conts == 1..NumConts          \* MidHandshakeTlsStream<S> values
Domains == 1..NumDomains      \* the &str given to ClientContext::handshake

VARIABLES
    pc,        \* "ctx": context built, handshake() not called yet;
               \* "idle": between polls; "polling": inside poll(), after the match
    role,      \* "client" (ClientContext) or "server" (ServerContext)
    inner,     \* the Handshake<S> enum value held by Client/ServerHandshake
    stream,    \* poll()'s local `stream` (the MidHandshakeTlsStream taken), 0 if none
    results,   \* history: what each poll() call gave back, in order
    calls,     \* history: every call made into the schannel crate, in order
    io         \* history: what each TlsStream read / write / flush gave back

vars == <<pc, role, inner, stream, results, calls, io>>

\* ---- enum Handshake<S> -------------------------------------------------
HsError(e) == [tag |-> "Error", v |-> e]
HsStream(s) == [tag |-> "Stream", v |-> s]
HsInterrupted(s) == [tag |-> "Interrupted", v |-> s]
HsEmpty == [tag |-> "Empty", v |-> 0]

Handshake ==
    {HsError(e) : e \in Errors} \cup {HsStream(s) : s \in Sessions}
        \cup {HsInterrupted(s) : s \in Conts} \cup {HsEmpty}

\* ---- values returned by the schannel crate -----------------------------
\* Result<SchannelCred, io::Error> of schannel_cred::Builder::acquire
AcquireOutcomes ==
    {[tag |-> "Ok", v |-> 0]} \cup {[tag |-> "Err", v |-> e] : e \in Errors}

\* Result<tls_stream::TlsStream<S>, HandshakeError<S>> of connect / accept /
\* MidHandshakeTlsStream::handshake
StepOutcomes ==
    {[tag |-> "Ok", v |-> s] : s \in Sessions}
        \cup {[tag |-> "Failure", v |-> e] : e \in Errors}
        \cup {[tag |-> "Interrupted", v |-> s] : s \in Conts}

\* Variant of MapErrFailure that builds a fresh error instead of passing e on.
MapErrFailureFreshError(acq) ==
    IF acq.tag = "Err" THEN [tag |-> "Failure", v |-> 1] ELSE acq

\* res.map_err(HandshakeError::Failure)
MapErrFailure(acq) ==
    IF acq.tag = "Err" THEN [tag |-> "Failure", v |-> acq.v] ELSE acq

\* Variant of TlsStream::new that wraps a default session, not its argument.
TlsStreamNewDefault(s) == [inner |-> 1]

\* ---- struct TlsStream<S> and Poll<TlsStream<S>, io::Error> --------------
TlsStreamNew(s) == [inner |-> s]
NoStream == [inner |-> 0]

PollReady(t) == [tag |-> "Ready", item |-> t, err |-> 0]
PollNotReady == [tag |-> "NotReady", item |-> NoStream, err |-> 0]
PollErr(e) == [tag |-> "Err", item |-> NoStream, err |-> e]
PollPanic == [tag |-> "Panic", item |-> NoStream, err |-> 0]

\* Variant of Handshake::new whose Failure arm yields the sentinel.
HandshakeNewDropsFailure(res) ==
    CASE res.tag = "Ok" -> HsStream(res.v)
      [] res.tag = "Failure" -> HsEmpty
      [] res.tag = "Interrupted" -> HsInterrupted(res.v)

\* ---- Handshake::new ----------------------------------------------------
HandshakeNew(res) ==
    CASE res.tag = "Ok" -> HsStream(res.v)
      [] res.tag = "Failure" -> HsError(res.v)
      [] res.tag = "Interrupted" -> HsInterrupted(res.v)

\* One record of the calls history.  poll = 0 for calls made by handshake(),
\* otherwise the number of the poll() call that made it.
Call(op, arg, ret, n) == [op |-> op, arg |-> arg, ret |-> ret, poll |-> n]

\* The body shared by the two handshake() methods: acquire, map_err,
\* and_then(first step), Handshake::new.
ContextHandshake(op, arg, acq, step) ==
    LET res == IF acq.tag = "Ok" THEN step ELSE MapErrFailure(acq)
    IN  /\ inner' = HandshakeNew(res)
        /\ calls' = IF acq.tag = "Ok"
                       THEN <<Call("acquire", 0, acq, 0), Call(op, arg, step, 0)>>
                       ELSE <<Call("acquire", 0, acq, 0)>>
        /\ pc' = "idle"
        /\ UNCHANGED <<role, stream, results, io>>

\* Variant of the mem::replace that leaves *self as it was.
ReplacedKeepsState(h) == h

\* Variant of the first match whose Empty arm reports NotReady, no panic.
PollEarlyNoPanic(taken) ==
    CASE taken.tag = "Error" -> PollErr(taken.v)
      [] taken.tag = "Empty" -> PollNotReady
      [] taken.tag = "Stream" -> PollReady(TlsStreamNew(taken.v))

\* Variant of the second match that reports Interrupted as an error.
ResumeResultInterruptedIsErr(r) ==
    CASE r.tag = "Ok" -> PollReady(TlsStreamNew(r.v))
      [] r.tag = "Failure" -> PollErr(r.v)
      [] r.tag = "Interrupted" -> PollErr(1)

\* Variant of the second match that reports NotReady for a finished handshake.
ResumeResultOkIsNotReady(r) ==
    CASE r.tag = "Ok" -> PollNotReady
      [] r.tag = "Failure" -> PollErr(r.v)
      [] r.tag = "Interrupted" -> PollNotReady

\* Variant of the second match without `*self = Handshake::Interrupted(s)`.
ResumeStateNoRestore(cur, r) == cur

\* Variant of the second match that also keeps the finished stream in *self.
ResumeStateKeepsStream(cur, r) ==
    CASE r.tag = "Interrupted" -> HsInterrupted(r.v)
      [] r.tag = "Ok" -> HsStream(r.v)
      [] r.tag = "Failure" -> cur

\* Variant of the second match that stores the first continuation again, not
\* the one handshake() just returned.
ResumeStateResets(cur, r) ==
    IF r.tag = "Interrupted" THEN HsInterrupted(1) ELSE cur

\* ---- Handshake::poll ---------------------------------------------------
\* What mem::replace(self, Handshake::Empty) leaves in *self.
Replaced(h) == HsEmpty

\* The arms of the first match that leave poll() at once.
PollEarly(taken) ==
    CASE taken.tag = "Error" -> PollErr(taken.v)
      [] taken.tag = "Empty" -> PollPanic
      [] taken.tag = "Stream" -> PollReady(TlsStreamNew(taken.v))

\* The second match: what poll() gives back for an outcome of stream.handshake().
ResumeResult(r) ==
    CASE r.tag = "Ok" -> PollReady(TlsStreamNew(r.v))
      [] r.tag = "Failure" -> PollErr(r.v)
      [] r.tag = "Interrupted" -> PollNotReady

\* The second match: *self after it (cur is *self before it, the sentinel).
ResumeState(cur, r) ==
    IF r.tag = "Interrupted" THEN HsInterrupted(r.v) ELSE cur

----------------------------------------------------------------------------
Init ==
    /\ pc = "ctx"
    /\ role \in {"client", "server"}
    /\ inner = HsEmpty
    /\ stream = 0
    /\ results = <<>>
    /\ calls = <<>>
    /\ io = <<>>

ServerContextHandshake ==
    /\ pc = "ctx"
    /\ role = "server"
    /\ \E acq \in AcquireOutcomes, step \in StepOutcomes :
           ContextHandshake("accept", 0, acq, step)

ClientContextHandshake ==
    /\ pc = "ctx"
    /\ role = "client"
    /\ \E domain \in Domains, acq \in AcquireOutcomes, step \in StepOutcomes :
           ContextHandshake("connect", domain, acq, step)

\* poll(), from the mem::replace to the end of the first match.
PollTake ==
    /\ pc = "idle"
    /\ Len(results) < MaxPolls
    /\ LET taken == inner
       IN  /\ inner' = Replaced(inner)
           /\ IF taken.tag = "Interrupted"
                 THEN /\ stream' = taken.v
                      /\ pc' = "polling"
                      /\ UNCHANGED results
                 ELSE /\ results' = Append(results, PollEarly(taken))
                      /\ UNCHANGED <<stream, pc>>
    /\ UNCHANGED <<role, calls, io>>

\* Variant of the second half of poll() that calls handshake() again, at
\* once, when the first call reports Interrupted.
PollResumeRetries ==
    /\ pc = "polling"
    /\ \E r1 \in StepOutcomes, r2 \in StepOutcomes :
           LET n == Len(results) + 1
               r == IF r1.tag = "Interrupted" THEN r2 ELSE r1
           IN  /\ calls' = IF r1.tag = "Interrupted"
                              THEN calls \o <<Call("handshake", stream, r1, n),
                                              Call("handshake", r1.v, r2, n)>>
                              ELSE Append(calls, Call("handshake", stream, r1, n))
               /\ inner' = ResumeState(inner, r)
               /\ results' = Append(results, ResumeResult(r))
    /\ stream' = 0
    /\ pc' = "idle"
    /\ UNCHANGED <<role, io>>

\* poll(), stream.handshake() and the second match.
PollResume ==
    /\ pc = "polling"
    /\ \E r \in StepOutcomes :
           /\ calls' = Append(calls, Call("handshake", stream, r, Len(results) + 1))
           /\ inner' = ResumeState(inner, r)
           /\ results' = Append(results, ResumeResult(r))
    /\ stream' = 0
    /\ pc' = "idle"
    /\ UNCHANGED <<role, io>>

Next ==
    \/ ServerContextHandshake
    \/ ClientContextHandshake
    \/ PollTake
    \/ PollResume

Spec == Init /\ [][Next]_vars

\* ---- impl Read / Write for TlsStream<S> ---------------------------------
\* io::Result of a read, write or flush of the inner tls_stream::TlsStream on
\* a buffer of n bytes: Ok(k) with k <= n, an io::Error of kind WouldBlock,
\* or another io::Error.
IoOutcomes(n) ==
    {[tag |-> "Ok", v |-> k] : k \in 0..n}
        \cup {[tag |-> "WouldBlock", v |-> 0]}
        \cup {[tag |-> "Err", v |-> e] : e \in Errors}

\* Variant of write() that reports a WouldBlock of the inner stream as Ok(0).
WriteResultHidesWouldBlock(ret) ==
    IF ret.tag = "WouldBlock" THEN [tag |-> "Ok", v |-> 0] ELSE ret

\* What read / write / flush give back for the result ret of the inner call.
ReadResult(ret) == ret
WriteResult(ret) == ret
FlushResult(ret) == ret

\* The TlsStream values the caller holds: the items of the Ready results.
StreamsHeld == {results[i].item : i \in {j \in 1..Len(results) : results[j].tag = "Ready"}}

\* One method of TlsStream: a single call of op on self.inner.
TlsStreamCall(t, op, n, ret, given) ==
    /\ calls' = Append(calls, Call(op, <<t.inner, n>>, ret, 0))
    /\ io' = Append(io, [op |-> op, on |-> t.inner, len |-> n, ret |-> given])
    /\ UNCHANGED <<pc, role, inner, stream, results>>

TlsStreamRead ==
    /\ Len(io) < MaxIo
    /\ \E t \in StreamsHeld, n \in 0..MaxBuf :
           \E ret \in IoOutcomes(n) : TlsStreamCall(t, "read", n, ret, ReadResult(ret))

TlsStreamWrite ==
    /\ Len(io) < MaxIo
    /\ \E t \in StreamsHeld, n \in 0..MaxBuf :
           \E ret \in IoOutcomes(n) : TlsStreamCall(t, "write", n, ret, WriteResult(ret))

TlsStreamFlush ==
    /\ Len(io) < MaxIo
    /\ \E t \in StreamsHeld :
           \E ret \in IoOutcomes(0) : TlsStreamCall(t, "flush", 0, ret, FlushResult(ret))

\* The states in which a TlsStream has just been built: handshake() whose
\* first step returned Ok(s), then the poll() that returned
\* Ready(TlsStream::new(s)).  (Each is a state of Spec, two steps from Init.)
InitStream ==
    /\ pc = "idle"
    /\ role \in {"client", "server"}
    /\ inner = HsEmpty
    /\ stream = 0
    /\ \E s \in Sessions, domain \in Domains :
           /\ calls = <<Call("acquire", 0, [tag |-> "Ok", v |-> 0], 0),
                        IF role = "client"
                           THEN Call("connect", domain, [tag |-> "Ok", v |-> s], 0)
                           ELSE Call("accept", 0, [tag |-> "Ok", v |-> s], 0)>>
           /\ results = <<PollReady(TlsStreamNew(s))>>
    /\ io = <<>>

NextStream ==
    \/ TlsStreamRead
    \/ TlsStreamWrite
    \/ TlsStreamFlush

\* The life of a TlsStream: reads, writes and flushes in any order.
SpecStream == InitStream /\ [][NextStream]_vars

\* ---- misuse: poll() entered again during poll() -------------------------
\* poll() hands control away only inside stream.handshake(), which reads and
\* writes the transport.  A second poll() on the same Handshake that starts
\* there (a call site that aliases the Handshake, which `&mut self` forbids to
\* safe callers) runs the whole of poll() on the state the first call left.
PollReentered ==
    /\ pc = "polling"
    /\ Len(results) + 1 < MaxPolls
    /\ LET taken == inner
       IN  IF taken.tag = "Interrupted"
              THEN \E r \in StepOutcomes :
                       /\ calls' = Append(calls,
                              Call("handshake", taken.v, r, Len(results) + 1))
                       /\ inner' = ResumeState(Replaced(inner), r)
                       /\ results' = Append(results, ResumeResult(r))
              ELSE /\ inner' = Replaced(inner)
                   /\ results' = Append(results, PollEarly(taken))
                   /\ UNCHANGED calls
    /\ UNCHANGED <<pc, role, stream, io>>

\* The panic of a reentered poll() unwinds through stream.handshake() and the
\* first poll(): that call panics too and its local `stream` is dropped.
\* (When the panic is caught on the way, PollResume goes on instead.)
PollUnwind ==
    /\ pc = "polling"
    /\ results # <<>>
    /\ results[Len(results)] = PollPanic
    /\ results' = Append(results, PollPanic)
    /\ stream' = 0
    /\ pc' = "idle"
    /\ UNCHANGED <<role, inner, calls, io>>

NextReentrant ==
    \/ ServerContextHandshake
    \/ ClientContextHandshake
    \/ PollTake
    \/ PollResume
    \/ PollReentered
    \/ PollUnwind

SpecReentrant == Init /\ [][NextReentrant]_vars

\* ---- a transport that becomes ready ------------------------------------
\* How often MidHandshakeTlsStream::handshake has returned Interrupted.
InterruptedResumes ==
    Cardinality({k \in 1..Len(calls) :
                    calls[k].op = "handshake" /\ calls[k].ret.tag = "Interrupted"})

\* The second half of poll() over a transport that makes handshake() return
\* Interrupted at most MaxInterrupted times.
PollResumeFinite ==
    /\ PollResume
    /\ InterruptedResumes' <= MaxInterrupted

NextLive ==
    \/ ServerContextHandshake
    \/ ClientContextHandshake
    \/ PollTake
    \/ PollResumeFinite

\* The caller polls again after every NotReady, and every handshake() call
\* returns.
SpecLive ==
    /\ Init
    /\ [][NextLive]_vars
    /\ WF_vars(PollTake)
    /\ WF_vars(PollResumeFinite)

----------------------------------------------------------------------------
TypeOK ==
    /\ pc \in {"ctx", "idle", "polling"}
    /\ role \in {"client", "server"}
    /\ inner \in Handshake
    /\ stream \in Conts \cup {0}
    /\ Len(results) <= MaxPolls
----------------------------------------------------------------------------
\* ---- vocabulary of the properties --------------------------------------
Polls == 1..Len(results)
Terminal(r) == r.tag \in {"Ready", "Err"}
TerminalReported == \E i \in Polls : Terminal(results[i])

\* A call into the schannel crate that reported failure, and its error.
Failed(c) ==
    \/ c.op = "acquire" /\ c.ret.tag = "Err"
    \/ c.op # "acquire" /\ c.ret.tag = "Failure"
FailureReported == \E k \in 1..Len(calls) : Failed(calls[k])

\* A negotiation step (connect, accept or MidHandshakeTlsStream::handshake).
IsStep(c) == c.op \in {"connect", "accept", "handshake"}

AcquireFailed == calls # <<>> /\ calls[1].ret.tag = "Err"

\* Every negotiation step made so far found the transport not ready.
AlwaysNotReady ==
    /\ Len(calls) >= 2
    /\ \A k \in 2..Len(calls) : calls[k].ret.tag = "Interrupted"

\* C1: every poll() made after a poll() that returned Ready or Err panics
\* ("can't poll handshake twice"), however many such calls are made, and the
\* state is the Empty sentinel from the terminal result on.
C1_PollAfterTerminalPanics ==
    /\ \A i, j \in Polls :
           (i < j /\ Terminal(results[i])) => results[j] = PollPanic
    /\ TerminalReported => inner = HsEmpty

C1_Witness ==
    /\ Len(results) >= 3
    /\ Terminal(results[Len(results) - 2])
    /\ results[Len(results) - 1] = PollPanic
    /\ results[Len(results)] = PollPanic

\* C2: the results of the polls that did not panic are zero or more NotReady
\* followed by at most one terminal result: one stream or one error, never
\* both, never two of either, never a NotReady after a terminal result.
C2_AtMostOneTerminalResult ==
    /\ \A i, j \in Polls :
           (i < j /\ results[i] # PollPanic /\ results[j] # PollPanic)
               => results[i] = PollNotReady
    /\ Cardinality({i \in Polls : Terminal(results[i])}) <= 1

C2_Witness ==
    /\ Len(results) = MaxPolls
    /\ results[1] = PollNotReady
    /\ results[2] = PollNotReady
    /\ results[3].tag = "Ready"
    /\ results[MaxPolls] = PollPanic

\* C3: when credential acquisition fails, the Handshake that handshake()
\* returns is Error(e), connect / accept / handshake are never called, and
\* the first poll() returns Err(e).
C3_AcquireFailureIsFirstResult ==
    AcquireFailed =>
        /\ \A k \in 1..Len(calls) : ~IsStep(calls[k])
        /\ (pc = "idle" /\ results = <<>>) => inner = HsError(calls[1].ret.v)
        /\ results # <<>> => results[1] = PollErr(calls[1].ret.v)

C3_Witness ==
    /\ AcquireFailed
    /\ calls[1].ret.v = NumErrors
    /\ results # <<>>
    /\ results[1].tag = "Err"

\* C4: while every negotiation step reports Interrupted, every poll() returns
\* NotReady and the state after each poll is Interrupted: never Error, Stream
\* or Empty.
C4_NotReadyTransportStaysInterrupted ==
    AlwaysNotReady =>
        /\ \A i \in Polls : results[i] = PollNotReady
        /\ pc = "idle" => inner.tag = "Interrupted"

C4_Witness ==
    /\ AlwaysNotReady
    /\ pc = "idle"
    /\ Len(results) >= 3

\* C5: poll() returns Err only for a failure that acquire or a negotiation
\* step reported, and a step that reports Interrupted gives the non-terminal
\* outcome: the Interrupted state out of handshake(), NotReady out of poll().
C5_NotReadyIsNeverAnError ==
    /\ \A i \in Polls :
           results[i].tag = "Err" =>
               \E k \in 1..Len(calls) :
                   Failed(calls[k]) /\ calls[k].ret.v = results[i].err
    /\ \A k \in 1..Len(calls) :
           (IsStep(calls[k]) /\ calls[k].ret.tag = "Interrupted") =>
               IF calls[k].poll = 0
                  THEN (pc = "idle" /\ results = <<>>)
                           => inner = HsInterrupted(calls[k].ret.v)
                  ELSE Len(results) >= calls[k].poll
                           => results[calls[k].poll] = PollNotReady

C5_Witness ==
    /\ Len(calls) >= 3
    /\ calls[2].ret.tag = "Interrupted"
    /\ calls[3].ret.tag = "Interrupted"
    /\ Len(results) >= 1
    /\ results[1] = PollNotReady

\* C6: a failure reported by acquire or by a negotiation step is the last call
\* made into the schannel crate, and the poll() that reports it returns Err
\* with the same error value.
C6_ErrorsSurfaceVerbatim ==
    \A k \in 1..Len(calls) :
        Failed(calls[k]) =>
            /\ k = Len(calls)
            /\ LET n == IF calls[k].poll = 0 THEN 1 ELSE calls[k].poll
               IN  Len(results) >= n => results[n] = PollErr(calls[k].ret.v)

C6_Witness ==
    /\ Len(calls) >= 3
    /\ Failed(calls[Len(calls)])
    /\ calls[Len(calls)].ret.v = NumErrors
    /\ Len(results) = MaxPolls
    /\ results[2] = PollErr(NumErrors)
\* ---- ownership of the transport ----------------------------------------
\* The transport S exists in one of three forms: bare (the caller's, until
\* handshake() moves it into connect / accept), inside a
\* MidHandshakeTlsStream<S>, or inside a tls_stream::TlsStream<S>.
\* Handshake::Error, Handshake::Empty, HandshakeError::Failure and io::Error
\* hold none of them.
HeldTransports == IF pc = "ctx" THEN 1 ELSE 0
HeldContinuations ==
    (IF inner.tag = "Interrupted" THEN 1 ELSE 0) + (IF pc = "polling" THEN 1 ELSE 0)
HeldSessions ==
    (IF inner.tag = "Stream" THEN 1 ELSE 0)
        + Cardinality({i \in Polls : results[i].tag = "Ready"})
Owned == HeldTransports + HeldContinuations + HeldSessions

\* 0 transport, 1 continuation, 2 session, 3 released with a reported failure
Stage ==
    CASE HeldTransports > 0 -> 0
      [] HeldTransports = 0 /\ HeldContinuations > 0 -> 1
      [] HeldTransports = 0 /\ HeldContinuations = 0 /\ HeldSessions > 0 -> 2
      [] OTHER -> 3

\* C10 as stated: exactly one of {transport, continuation, session} is owned
\* in every state from handshake() on.
C10_ExactlyOneOwnedAlways == pc # "ctx" => Owned = 1

\* C10 amended: at most one of {transport, continuation, session} is owned in
\* every state; exactly one until acquire or a negotiation step reports
\* failure, and none from then on (the failure is what releases it, so it is
\* never dropped silently); ownership only moves forward, transport to
\* continuation to session.
C10_OwnershipMovesForward ==
    /\ [](Owned <= 1 /\ (Owned = 0 <=> FailureReported))
    /\ [][Stage' >= Stage /\ (Stage = 2 => Stage' = 2)]_vars

C10_Witness ==
    /\ Len(results) >= 3
    /\ results[2].tag = "Ready"
    /\ Owned = 1
    /\ inner = HsEmpty

C10_WitnessReleased ==
    /\ FailureReported
    /\ Owned = 0
    /\ results # <<>>

\* C13: handshake() maps the outcome of its first negotiation step to the
\* initial state one-to-one (Ok to Stream, Interrupted to Interrupted, Failure
\* to Error, each with the same payload), and the first poll() after an Ok step
\* returns Ready, after a Failure step Err: no NotReady comes before either.
C13_FirstStepMapsOneToOne ==
    Len(calls) >= 2 =>
        LET first == calls[2].ret
        IN  /\ (pc = "idle" /\ results = <<>>) =>
                   /\ first.tag = "Ok" => inner = [tag |-> "Stream", v |-> first.v]
                   /\ first.tag = "Interrupted"
                          => inner = [tag |-> "Interrupted", v |-> first.v]
                   /\ first.tag = "Failure" => inner = [tag |-> "Error", v |-> first.v]
            /\ results # <<>> =>
                   /\ first.tag = "Ok" => results[1].tag = "Ready"
                   /\ first.tag = "Failure" => results[1].tag = "Err"

C13_Witness ==
    /\ Len(calls) = 2
    /\ calls[2].ret.tag = "Ok"
    /\ results # <<>>
    /\ results[1].tag = "Ready"

C13_WitnessFailure ==
    /\ Len(calls) = 2
    /\ calls[2].ret.tag = "Failure"
    /\ results # <<>>
    /\ results[1].tag = "Err"

\* Some poll() has already returned Ready or Err, or has panicked.
TerminalOrPanic == \E i \in Polls : results[i].tag \in {"Ready", "Err", "Panic"}
LastWasNotReady == results # <<>> /\ results[Len(results)] = PollNotReady

\* C14 as stated: between polls the state is Empty exactly when an earlier
\* poll() reported a terminal result or panicked, and it is Interrupted after
\* handshake() and after every poll() that returned NotReady.
C14_InterruptedAfterHandshake ==
    pc = "idle" =>
        /\ inner = HsEmpty <=> TerminalOrPanic
        /\ (results = <<>> \/ LastWasNotReady) => inner.tag = "Interrupted"

\* C14 amended: between polls the state is Empty exactly when an earlier
\* poll() reported a terminal result or panicked; after handshake() it is
\* Interrupted, Stream or Error (whatever the first step gave), never Empty,
\* and after every poll() that returned NotReady it is Interrupted.
C14_EmptyOnlyAfterTerminal ==
    pc = "idle" =>
        /\ inner = HsEmpty <=> TerminalOrPanic
        /\ results = <<>> => inner.tag \in {"Interrupted", "Stream", "Error"}
        /\ LastWasNotReady => inner.tag = "Interrupted"

C14_Witness ==
    /\ pc = "idle"
    /\ Len(results) >= 2
    /\ LastWasNotReady
    /\ inner.tag = "Interrupted"

C14_WitnessEmpty ==
    /\ pc = "idle"
    /\ inner = HsEmpty
    /\ Len(results) >= 2
    /\ results[Len(results)].tag = "Ready"

\* The calls of MidHandshakeTlsStream::handshake made by poll() number n.
ResumesOf(n) ==
    {k \in 1..Len(calls) : calls[k].op = "handshake" /\ calls[k].poll = n}

\* C15: no poll() calls MidHandshakeTlsStream::handshake more than once, and
\* every poll() that returned NotReady made exactly one such call, which
\* returned Interrupted.
C15_OneStepPerPoll ==
    /\ \A n \in 1..(Len(results) + 1) : Cardinality(ResumesOf(n)) <= 1
    /\ \A n \in Polls :
           results[n] = PollNotReady =>
               /\ Cardinality(ResumesOf(n)) = 1
               /\ \A k \in ResumesOf(n) : calls[k].ret.tag = "Interrupted"

C15_Witness ==
    /\ Len(results) >= 2
    /\ results[1] = PollNotReady
    /\ results[2] = PollNotReady
    /\ Cardinality(ResumesOf(1)) = 1
    /\ Cardinality(ResumesOf(2)) = 1

\* C16: after a poll() whose handshake() call returned Interrupted(s), the
\* state is Interrupted(s) with exactly that s, and every handshake() call is
\* made on the continuation that the step before it returned: none is lost,
\* reset or replayed.
C16_LatestContinuationIsKept ==
    /\ (pc = "idle" /\ LastWasNotReady) =>
           /\ calls[Len(calls)].op = "handshake"
           /\ inner = [tag |-> "Interrupted", v |-> calls[Len(calls)].ret.v]
    /\ pc = "polling" => stream = calls[Len(calls)].ret.v
    /\ \A k \in 3..Len(calls) :
           calls[k].op = "handshake" =>
               /\ calls[k - 1].ret.tag = "Interrupted"
               /\ calls[k].arg = calls[k - 1].ret.v

C16_Witness ==
    /\ Len(calls) >= 4
    /\ calls[3].op = "handshake"
    /\ calls[3].ret.tag = "Interrupted"
    /\ calls[3].ret.v # calls[3].arg
    /\ calls[4].op = "handshake"
    /\ calls[4].arg = calls[3].ret.v

\* A step that appends one MidHandshakeTlsStream::handshake call on s.
ResumeInvokedOn(s) ==
    /\ Len(calls') = Len(calls) + 1
    /\ calls'[Len(calls')].op = "handshake"
    /\ calls'[Len(calls')].arg = s

\* C17: a poll() that finds Stream(s) or Error(e) makes no call into the
\* schannel crate, returns Ready with a TlsStream whose inner is s, or Err(e),
\* and leaves Empty behind; a poll() calls MidHandshakeTlsStream::handshake
\* if and only if the state it found was Interrupted.
C17_TerminalStatesNeedNoStep ==
    [][/\ (pc = "idle" /\ inner.tag = "Stream") =>
              /\ calls' = calls
              /\ inner' = HsEmpty
              /\ pc' = "idle"
              /\ results' = Append(results,
                     [tag |-> "Ready", item |-> [inner |-> inner.v], err |-> 0])
       /\ (pc = "idle" /\ inner.tag = "Error") =>
              /\ calls' = calls
              /\ inner' = HsEmpty
              /\ pc' = "idle"
              /\ results' = Append(results,
                     [tag |-> "Err", item |-> [inner |-> 0], err |-> inner.v])
       /\ (pc = "idle" /\ inner.tag = "Empty") => calls' = calls
       /\ (pc = "idle" /\ inner.tag = "Interrupted") =>
              /\ calls' = calls
              /\ pc' = "polling"
              /\ stream' = inner.v
       /\ pc = "polling" => (ResumeInvokedOn(stream) /\ pc' = "idle")
      ]_vars

C17_Witness ==
    /\ Len(calls) = 2
    /\ calls[2].ret = [tag |-> "Ok", v |-> NumSessions]
    /\ inner = HsEmpty
    /\ Len(results) = 1
    /\ results[1] = [tag |-> "Ready", item |-> [inner |-> NumSessions], err |-> 0]

\* C18: the Handshake that handshake() returns is never Empty, so the first
\* poll() returns Ready, NotReady or Err and never panics, whatever acquire
\* and the first negotiation step returned.
C18_FirstPollNeverPanics ==
    /\ (pc = "idle" /\ results = <<>>) => inner # HsEmpty
    /\ results # <<>> => results[1].tag \in {"Ready", "NotReady", "Err"}

C18_Witness ==
    /\ Len(results) = 1
    /\ results[1] = PollNotReady
    /\ calls[2].ret.tag = "Interrupted"
    /\ pc = "idle"

C18_WitnessAcquireFailed ==
    /\ Len(results) = 1
    /\ results[1].tag = "Err"
    /\ AcquireFailed

NotReadyResults == Cardinality({i \in Polls : results[i] = PollNotReady})

\* C19: when the caller polls again after every NotReady and handshake()
\* returns Interrupted only finitely often, every Handshake eventually returns
\* Ready or Err; and poll() returns NotReady exactly as often as handshake()
\* returned Interrupted, never more.
C19_EventuallyTerminal ==
    /\ [](NotReadyResults = InterruptedResumes)
    /\ (pc # "ctx") ~> TerminalReported

C19_Witness ==
    /\ InterruptedResumes = MaxInterrupted
    /\ Len(results) = MaxInterrupted + 1
    /\ Terminal(results[MaxInterrupted + 1])

\* C11: a poll() that starts while another poll() of the same Handshake is in
\* progress finds Empty and panics: the state it sees is never half-moved, it
\* makes no call on the continuation the first poll() holds (nor any other
\* call into the schannel crate), and no second stream or error comes out.
C11_ReentrantPollPanics ==
    /\ [](pc = "polling" => inner = HsEmpty)
    /\ [](Cardinality({i \in Polls : Terminal(results[i])}) <= 1)
    /\ [][(pc = "polling" /\ pc' = "polling") =>
              /\ results' = Append(results, PollPanic)
              /\ calls' = calls
              /\ inner' = HsEmpty
              /\ stream' = stream
         ]_vars

C11_Witness ==
    /\ pc = "polling"
    /\ results # <<>>
    /\ results[Len(results)] = PollPanic
    /\ stream \in Conts

IsIo(c) == c.op \in {"read", "write", "flush"}
IoCalls == SelectSeq(calls, IsIo)

\* C12: each read, write and flush of the TlsStream makes exactly one call of
\* the same operation on the session the handshake returned, with the same
\* buffer, and gives back that call's result unchanged: the byte count, the
\* WouldBlock or the error.
C12_StreamForwardsVerbatim ==
    /\ Len(IoCalls) = Len(io)
    /\ \A i \in 1..Len(io) :
           /\ IoCalls[i].op = io[i].op
           /\ IoCalls[i].arg = <<io[i].on, io[i].len>>
           /\ IoCalls[i].ret = io[i].ret
           /\ \E j \in Polls :
                  results[j].tag = "Ready" /\ results[j].item.inner = io[i].on

C12_Witness ==
    /\ Len(io) = 2
    /\ io[1].op = "write"
    /\ io[1].ret.tag = "WouldBlock"
    /\ io[2].op = "read"
    /\ io[2].ret = [tag |-> "Ok", v |-> MaxBuf]
====
